---- MODULE Spec2Model ----
(***************************************************************************)
(* A model of pysqueezebox: Server.async_query and the lookups built on    *)
(* it, the Player status snapshot, its typed properties and the playlist   *)
(* loading algorithm.  The Logitech Media Server is the environment: every *)
(* HTTP exchange is a nondeterministic choice among the answers a server   *)
(* or a broken transport can give.                                         *)
(***************************************************************************)
EXTENDS Integers, Sequences, FiniteSets, TLC

VARIABLES status, ret, op, srv, log, loads, settings, wanted, lms, calls

vars == <<status, ret, op, srv, log, loads, settings, wanted, lms, calls>>

(* ---------------------------------------------------------------------- *)
(* Bounds of the model                                                     *)
(* ---------------------------------------------------------------------- *)

\* longest list of entries handed to async_load_playlist
MaxEntries == 3

\* longest playlist the modelled server holds
MaxQueue == 5

\* longest sequence of calls in a behaviour that counts its calls
MaxCalls == 1

\* number of async_load_playlist calls in one behaviour
MaxLoads == 1

(* ---------------------------------------------------------------------- *)
(* Python / JSON values, tagged by type                                    *)
(* ---------------------------------------------------------------------- *)

PyNone == [t |-> "none"]

PyFalse == [t |-> "bool", b |-> FALSE]

PyTrue == [t |-> "bool", b |-> TRUE]

PyStr(s) == [t |-> "str", s |-> s]

PyInt(n) == [t |-> "int", n |-> n]

\* a numeric string such as "-37": sign character and magnitude
PyNumStr(neg, mag) == [t |-> "numstr", neg |-> neg, mag |-> mag]

PyDict(d) == [t |-> "dict", d |-> d]

PyList(l) == [t |-> "list", l |-> l]

EmptyDict == PyDict(<<>>)

EmptyList == PyList(<<>>)

\* Python truth value of a value (bool(v))
Truthy(v) ==
    CASE v.t = "none" -> FALSE
      [] v.t = "bool" -> v.b
      [] v.t = "str" -> v.s # ""
      [] v.t = "int" -> v.n # 0
      [] v.t = "numstr" -> TRUE
      [] v.t = "dict" -> DOMAIN v.d # {}
      [] v.t = "list" -> Len(v.l) > 0
      [] OTHER -> TRUE

\* how a call ends: with a value, or with an exception reaching the caller
Return(v) == [kind |-> "return", val |-> v]

Raise(e) == [kind |-> "raise", exc |-> e]

\* one record written to the module logger
Log(level, msg) == [level |-> level, msg |-> msg]

(* ---------------------------------------------------------------------- *)
(* The HTTP exchange, as the transport hands it to async_query             *)
(* ---------------------------------------------------------------------- *)

\* asyncio.TimeoutError raised by the timeout context or the post
Timeout == [st |-> "timeout"]

\* aiohttp.ClientError raised by the post or by response.json()
ClientError == [st |-> "clienterror"]

\* a response with a status code and the JSON value of its body
Http(code, body) == [st |-> "http", code |-> code, body |-> body]

\* a well-formed JSON-RPC answer carrying `result`
Answer(result) == Http(200, PyDict("result" :> result))

\* a 200 answer whose body is a mapping without `result`
NoResultAnswer == Http(200, PyDict("error" :> PyStr("bad request")))

\* a 200 answer whose body is not a mapping at all
ListAnswer == Http(200, PyList(<<PyInt(1)>>))

\* whether the request reached the server and was processed by it
Processed(x) == x.st = "http" /\ x.code = 200

(* ---------------------------------------------------------------------- *)
(* Server.async_query                                                      *)
(* ---------------------------------------------------------------------- *)

\* data[key] on a parsed JSON value: the value, or the exception Python raises
GetItem(data, key) ==
    CASE data.t = "dict" ->
           IF key \in DOMAIN data.d THEN Return(data.d[key]) ELSE Raise("KeyError")
      [] OTHER -> Raise("TypeError")

\* ParseResult without the empty-result test: an empty result is handed back
parse_result_no_empty_test(data) ==
    LET got == GetItem(data, "result") IN
    IF got.kind = "raise"
    THEN IF got.exc = "AttributeError"
         THEN [out |-> Return(PyNone), log |-> <<Log("error", "invalid response")>>]
         ELSE [out |-> got, log |-> <<>>]
    ELSE [out |-> Return(got.val), log |-> <<>>]

\* the second try block: only AttributeError is caught, logged and turned
\* into an implicit None; every other exception reaches the caller
ParseResult(data) ==
    LET got == GetItem(data, "result") IN
    IF got.kind = "raise"
    THEN IF got.exc = "AttributeError"
         THEN [out |-> Return(PyNone), log |-> <<Log("error", "invalid response")>>]
         ELSE [out |-> got, log |-> <<>>]
    ELSE IF ~Truthy(got.val)
         THEN [out |-> Return(PyTrue), log |-> <<>>]
         ELSE [out |-> Return(got.val), log |-> <<>>]

\* async_query without the status test: every response body is parsed
async_query_no_status_test(x) ==
    LET dbg == <<Log("debug", "URL Data")>> IN
    IF x.st \in {"timeout", "clienterror"}
    THEN [out |-> Return(PyFalse),
          log |-> dbg \o <<Log("error", "Failed communicating with LMS")>>]
    ELSE LET p == ParseResult(x.body) IN
         [out |-> p.out, log |-> dbg \o p.log]

\* Server.async_query for one exchange x: the outcome and what is logged
async_query(x) ==
    LET dbg == <<Log("debug", "URL Data")>> IN
    IF x.st \in {"timeout", "clienterror"}
    THEN [out |-> Return(PyFalse),
          log |-> dbg \o <<Log("error", "Failed communicating with LMS")>>]
    ELSE IF x.code # 200
         THEN [out |-> Return(PyFalse),
               log |-> dbg \o <<Log("error", "Query failed, response code")>>]
         ELSE LET p == ParseResult(x.body) IN
              [out |-> p.out, log |-> dbg \o p.log]

(* ---------------------------------------------------------------------- *)
(* The media server behind the transport                                   *)
(* ---------------------------------------------------------------------- *)

\* track urls of the library, in the order the model hands them out
Urls == <<"u1", "u2", "u3", "u4", "u5">>

\* the player the modelled Player object stands for
PlayerId == "00:01"

PlayerName == "Kitchen"

\* the devices the server enumerates, in players_loop order
Roster ==
    << [playerid |-> "00:01", name |-> "Kitchen"],
       [playerid |-> "00:02", name |-> "Den"],
       [playerid |-> "00:03", name |-> "KITCHEN"] >>

\* str.lower() on the names of the model
Lower(s) ==
    CASE s = "Kitchen" -> "kitchen"
      [] s = "KITCHEN" -> "kitchen"
      [] s = "Den" -> "den"
      [] OTHER -> s

\* the playlist after one track is placed immediately after the current one
InsertNext(pl, cur, u) ==
    IF Len(pl) = 0
    THEN <<u>>
    ELSE SubSeq(pl, 1, cur) \o <<u>> \o SubSeq(pl, cur + 1, Len(pl))

\* what a processed command does to the server's playlist: play and load
\* replace the playlist, insert adds next, add adds to the end
ServerApply(s, command) ==
    IF Len(command) = 3 /\ command[1] = "playlist"
    THEN CASE command[2] \in {"play", "load"} ->
                [playlist |-> <<command[3]>>, cur |-> 1]
           [] command[2] = "insert" ->
                [playlist |-> InsertNext(s.playlist, s.cur, command[3]),
                 cur |-> IF s.cur = 0 THEN 1 ELSE s.cur]
           [] command[2] = "add" ->
                [playlist |-> Append(s.playlist, command[3]),
                 cur |-> IF s.cur = 0 THEN 1 ELSE s.cur]
           [] OTHER -> s
    ELSE IF command = <<"playlist", "clear">>
         THEN [playlist |-> <<>>, cur |-> 0]
         ELSE s

\* the playlist_loop entry of one track
Track(u) == PyDict("url" :> PyStr(u))

\* status mappings a server answers with
StatusPlaying ==
    PyDict(("player_name" :> PyStr(PlayerName))
        @@ ("power" :> PyInt(1))
        @@ ("mode" :> PyStr("play"))
        @@ ("mixer volume" :> PyInt(-37))
        @@ ("playlist shuffle" :> PyInt(2))
        @@ ("playlist repeat" :> PyInt(1))
        @@ ("duration" :> PyNumStr(FALSE, 215))
        @@ ("time" :> PyInt(12))
        @@ ("playlist_cur_index" :> PyNumStr(FALSE, 1))
        @@ ("playlist_loop" :> PyList(<<Track("u1"), Track("u2")>>)))

StatusRemote ==
    PyDict(("power" :> PyInt(0))
        @@ ("current_title" :> PyStr("Radio"))
        @@ ("remoteMeta" :> PyDict(("title" :> PyStr("Song")) @@ ("url" :> PyStr("u1")))))

\* the answer to the roster query
RosterResult ==
    PyDict("players_loop" :>
        PyList([i \in 1..Len(Roster) |->
            PyDict(("playerid" :> PyStr(Roster[i].playerid))
                @@ ("name" :> PyStr(Roster[i].name)))]))

\* a non-200 response; its body is never read
NotFoundResponse == Http(404, PyDict("result" :> StatusPlaying))

\* the exchanges that end without a usable answer
FailedExchanges == {Timeout, ClientError, NotFoundResponse}

\* the mappings a status query can answer with
StatusResults == {EmptyDict, StatusPlaying, StatusRemote}

\* every `result` value the model's server sends
Results == StatusResults \cup {EmptyList, PyList(<<PyInt(1)>>), RosterResult}

\* every exchange of the model
Exchanges ==
    FailedExchanges \cup {NoResultAnswer, ListAnswer} \cup {Answer(r) : r \in Results}

\* the exchanges of a status query
StatusExchanges ==
    FailedExchanges \cup {NoResultAnswer} \cup {Answer(r) : r \in StatusResults}

\* the exchanges of one playlist sub-command: lost, acknowledged, or garbled
CommandExchanges == {Timeout, Answer(EmptyDict), NoResultAnswer}

(* ---------------------------------------------------------------------- *)
(* Player: typed properties of the status snapshot                         *)
(* ---------------------------------------------------------------------- *)

\* a Player object as a value: it starts with an empty snapshot
Player(id, name) == [t |-> "player", id |-> id, name |-> name, status |-> <<>>]

\* int(float(v))
IntFloat(v) ==
    CASE v.t = "int" -> Return(v.n)
      [] v.t = "numstr" -> Return(IF v.neg THEN 0 - v.mag ELSE v.mag)
      [] v.t = "bool" -> Return(IF v.b THEN 1 ELSE 0)
      [] v.t = "str" -> Raise("ValueError")
      [] OTHER -> Raise("TypeError")

\* str(v).startswith("-")
StartsWithMinus(v) ==
    CASE v.t = "int" -> v.n < 0
      [] v.t = "numstr" -> v.neg
      [] OTHER -> FALSE

\* seq[i] for a Python list and an integer index, negative indices included
ListItem(l, i) ==
    IF i >= 0 /\ i < Len(l) THEN Return(l[i + 1])
    ELSE IF i < 0 /\ i >= 0 - Len(l) THEN Return(l[Len(l) + i + 1])
    ELSE Raise("IndexError")

\* the value under key, or None when the key is missing
Lookup(s, key) == IF key \in DOMAIN s THEN Return(s[key]) ELSE Return(PyNone)

power(s) ==
    IF "power" \in DOMAIN s
    THEN Return(IF s["power"] = PyInt(1) THEN PyTrue ELSE PyFalse)
    ELSE Return(PyNone)

mode(s) == Lookup(s, "mode")

\* volume that keeps the sign of the raw field
volume_signed(s) ==
    IF "mixer volume" \in DOMAIN s
    THEN LET n == IntFloat(s["mixer volume"]) IN
         IF n.kind = "raise" THEN n ELSE Return(PyInt(n.val))
    ELSE Return(PyNone)

volume(s) ==
    IF "mixer volume" \in DOMAIN s
    THEN LET n == IntFloat(s["mixer volume"]) IN
         IF n.kind = "raise" THEN n
         ELSE Return(PyInt(IF n.val < 0 THEN 0 - n.val ELSE n.val))
    ELSE Return(PyNone)

muting(s) ==
    IF "mixer volume" \in DOMAIN s
    THEN Return(IF StartsWithMinus(s["mixer volume"]) THEN PyTrue ELSE PyFalse)
    ELSE Return(PyNone)

current_title(s) == Lookup(s, "current_title")

\* int(float(status[key])) when the key is present
Seconds(s, key) ==
    IF key \in DOMAIN s
    THEN LET n == IntFloat(s[key]) IN
         IF n.kind = "raise" THEN n ELSE Return(PyInt(n.val))
    ELSE Return(PyNone)

duration(s) == Seconds(s, "duration")

time(s) == Seconds(s, "time")

\* the first try block of current_track: KeyError is the only exception caught
TrackAtIndex(s) ==
    IF "playlist_cur_index" \notin DOMAIN s THEN Raise("KeyError")
    ELSE LET n == IntFloat(s["playlist_cur_index"]) IN
         IF n.kind = "raise" THEN n
         ELSE IF "playlist_loop" \notin DOMAIN s THEN Raise("KeyError")
         ELSE LET pl == s["playlist_loop"] IN
              IF pl.t = "list" THEN ListItem(pl.l, n.val)
              ELSE IF pl.t = "dict" THEN Raise("KeyError")
              ELSE Raise("TypeError")

current_track(s) ==
    LET first == TrackAtIndex(s) IN
    IF first.kind = "raise" /\ first.exc = "KeyError"
    THEN Lookup(s, "remoteMeta")
    ELSE first

\* `key in self.current_track`, then self.current_track[key]
TrackField(s, key) ==
    LET ct == current_track(s) IN
    IF ct.kind = "raise" THEN ct
    ELSE CASE ct.val.t = "dict" ->
                IF key \in DOMAIN ct.val.d THEN Return(ct.val.d[key]) ELSE Return(PyNone)
           [] ct.val.t \in {"list", "str"} -> Return(PyNone)
           [] OTHER -> Raise("TypeError")

title(s) == TrackField(s, "title")

artist(s) == TrackField(s, "artist")

album(s) == TrackField(s, "album")

url(s) == TrackField(s, "url")

SHUFFLE_MODE == <<"none", "song", "album">>

REPEAT_MODE == <<"none", "song", "playlist">>

\* table[status[key]] when the key is present
ModeName(s, key, table) ==
    IF key \in DOMAIN s
    THEN IF s[key].t = "int"
         THEN LET r == ListItem(table, s[key].n) IN
              IF r.kind = "raise" THEN r ELSE Return(PyStr(r.val))
         ELSE Raise("TypeError")
    ELSE Return(PyNone)

shuffle(s) == ModeName(s, "playlist shuffle", SHUFFLE_MODE)

repeat(s) == ModeName(s, "playlist repeat", REPEAT_MODE)

playlist(s) == Lookup(s, "playlist_loop")

synced(s) == Lookup(s, "sync_master")

sync_master(s) == Lookup(s, "sync_master")

sync_slaves(s) == Lookup(s, "sync_slaves")

\* a sync group that lists the master before the slaves
sync_group_master_first(id, s) ==
    Return(PyList(<<id>>
                  \o (IF Truthy(sync_master(s).val) THEN <<sync_master(s).val>> ELSE <<>>)
                  \o (IF Truthy(sync_slaves(s).val) THEN <<sync_slaves(s).val>> ELSE <<>>)))

\* [player_id], then the sync_slaves value appended when it is truthy, then
\* the sync_master value appended when it is truthy
sync_group(id, s) ==
    Return(PyList(<<id>>
                  \o (IF Truthy(sync_slaves(s).val) THEN <<sync_slaves(s).val>> ELSE <<>>)
                  \o (IF Truthy(sync_master(s).val) THEN <<sync_master(s).val>> ELSE <<>>)))

\* a URL as its parts; userinfo is <<username, password>> or empty
Url(userinfo, host, port, path, query) ==
    [t |-> "url", scheme |-> "http", userinfo |-> userinfo, host |-> host,
     port |-> port, path |-> path, query |-> query]

\* urljoin of the server's base URL, with credentials when the server has a
\* username, and /music/current/cover.jpg?player=<id>
image_url(id, l) ==
    Return(Url(IF Truthy(l.username) THEN <<l.username, l.password>> ELSE <<>>,
               l.host, l.port, "/music/current/cover.jpg", [player |-> id]))

\* the typed properties of the model
PropertyNames ==
    {"power", "mode", "volume", "muting", "current_title", "duration", "time",
     "current_track", "title", "artist", "album", "shuffle", "repeat", "url",
     "playlist"}

\* reading property p of a Player whose snapshot is s
Property(p, s) ==
    CASE p = "power" -> power(s)
      [] p = "mode" -> mode(s)
      [] p = "volume" -> volume(s)
      [] p = "muting" -> muting(s)
      [] p = "current_title" -> current_title(s)
      [] p = "duration" -> duration(s)
      [] p = "time" -> time(s)
      [] p = "current_track" -> current_track(s)
      [] p = "title" -> title(s)
      [] p = "artist" -> artist(s)
      [] p = "album" -> album(s)
      [] p = "shuffle" -> shuffle(s)
      [] p = "repeat" -> repeat(s)
      [] p = "url" -> url(s)
      [] OTHER -> playlist(s)

\* the properties of a Player, those of the object itself included
AllPropertyNames ==
    PropertyNames \cup {"name", "player_id", "synced", "sync_master",
                        "sync_slaves", "sync_group", "image_url"}

\* reading property p of the Player with this id and name, whose snapshot is
\* s and whose server is l
PlayerProperty(p, id, name, s, l) ==
    CASE p = "name" -> Return(name)
      [] p = "player_id" -> Return(id)
      [] p = "synced" -> synced(s)
      [] p = "sync_master" -> sync_master(s)
      [] p = "sync_slaves" -> sync_slaves(s)
      [] p = "sync_group" -> sync_group(id, s)
      [] p = "image_url" -> image_url(id, l)
      [] OTHER -> Property(p, s)

(* ---------------------------------------------------------------------- *)
(* Player: refresh and playlist loading                                    *)
(* ---------------------------------------------------------------------- *)

\* what one query of this player puts on the wire
Sent(command) == [player |-> PlayerId, command |-> command]

\* async_update that empties the snapshot before it looks at the response
async_update_clear_first(s, x) ==
    LET q == async_query(x) IN
    IF q.out.kind = "raise"
    THEN [status |-> s, out |-> q.out, log |-> q.log]
    ELSE IF q.out.val = PyFalse
         THEN [status |-> <<>>, out |-> Return(PyFalse), log |-> q.log]
         ELSE IF q.out.val.t = "dict"
              THEN [status |-> q.out.val.d, out |-> Return(PyTrue), log |-> q.log]
              ELSE [status |-> <<>>, out |-> Raise("TypeError"), log |-> q.log]

\* Player.async_update on snapshot s when the status query's exchange is x:
\* the new snapshot, the outcome and the log
async_update(s, x) ==
    LET q == async_query(x) IN
    IF q.out.kind = "raise"
    THEN [status |-> s, out |-> q.out, log |-> q.log]
    ELSE IF q.out.val = PyFalse
         THEN [status |-> s, out |-> Return(PyFalse), log |-> q.log]
         ELSE IF q.out.val.t = "dict"
              THEN [status |-> q.out.val.d, out |-> Return(PyTrue), log |-> q.log]
              ELSE \* self._status = {} has run when dict.update rejects the value
                   [status |-> <<>>, out |-> Raise("TypeError"), log |-> q.log]

\* table.index(name) for a name of the table
Index(table, name) == (CHOOSE i \in 1..Len(table) : table[i] = name) - 1

\* whether name is an element of the table
InTable(table, name) == \E i \in 1..Len(table) : table[i] = name

\* a setter that sends the position of the name counted from 1
SetModeOneBased(table, key, name, x) ==
    IF InTable(table, name)
    THEN [out |-> async_query(x).out, log |-> async_query(x).log,
          sent |-> <<Sent(<<"playlist", key, PyInt(Index(table, name) + 1)>>)>>]
    ELSE [out |-> Return(PyNone), log |-> <<>>, sent |-> <<>>]

\* async_set_shuffle / async_set_repeat: a name of the table is sent as its
\* index, any other name sends nothing and returns None
SetMode(table, key, name, x) ==
    IF InTable(table, name)
    THEN [out |-> async_query(x).out, log |-> async_query(x).log,
          sent |-> <<Sent(<<"playlist", key, PyInt(Index(table, name))>>)>>]
    ELSE [out |-> Return(PyNone), log |-> <<>>, sent |-> <<>>]

async_set_shuffle(name, x) == SetMode(SHUFFLE_MODE, "shuffle", name, x)

async_set_repeat(name, x) == SetMode(REPEAT_MODE, "repeat", name, x)

\* the command a call of one of the plain command methods puts together, or
\* the exception it raises before anything is sent
CommandOf(c) ==
    CASE c.name = "async_set_volume" -> Return(<<"mixer", "volume", c.arg.s>>)
      [] c.name = "async_set_muting" ->
            Return(<<"mixer", "muting", IF Truthy(c.arg) THEN "1" ELSE "0">>)
      [] c.name = "async_toggle_pause" -> Return(<<"pause">>)
      [] c.name = "async_play" -> Return(<<"play">>)
      [] c.name = "async_pause" -> Return(<<"pause", "1">>)
      [] c.name = "async_index" -> Return(<<"playlist", "index", c.arg.s>>)
      [] c.name = "async_time" -> Return(<<"time", c.arg.s>>)
      [] c.name = "async_set_power" ->
            Return(<<"power", IF Truthy(c.arg) THEN "1" ELSE "0">>)
      [] c.name = "async_load_url" -> Return(<<"playlist", c.cmd, c.arg.s>>)
      [] c.name = "async_clear_playlist" -> Return(<<"playlist", "clear">>)
      [] c.name = "async_sync" ->
            LET other_player_id == IF c.arg.t = "player" THEN c.arg.id ELSE c.arg
            IN  IF Truthy(other_player_id)
                THEN Return(<<"sync", other_player_id.s>>)
                ELSE Raise("RuntimeError")
      [] OTHER -> Return(<<"sync", "-">>)

\* a plain command method: one query of this player, whose result is returned
PlayerCommand(c, x) ==
    IF CommandOf(c).kind = "raise"
    THEN [out |-> CommandOf(c), log |-> <<>>, sent |-> <<>>]
    ELSE [out |-> async_query(x).out, log |-> async_query(x).log,
          sent |-> <<Sent(CommandOf(c).val)>>]

\* reversed(playlist)
Reversed(l) == [i \in 1..Len(l) |-> l[Len(l) + 1 - i]]

\* the commands after the insert branch: play and load send the first entry
\* as a play and the rest as adds, any other cmd sends every entry as an add;
\* the pop(0) of an empty list raises IndexError
ReplaceOrAddCommands(entries, cmd) ==
    IF cmd \in {"play", "load"}
    THEN IF Len(entries) = 0
         THEN Raise("IndexError")
         ELSE Return(<<<<"playlist", "play", Head(entries)>>>>
                     \o [i \in 1..(Len(entries) - 1) |->
                           <<"playlist", "add", Tail(entries)[i]>>])
    ELSE Return([i \in 1..Len(entries) |-> <<"playlist", "add", entries[i]>>])

\* PlaylistCommands with the inserts sent in list order
PlaylistCommandsInListOrder(entries, cmd) ==
    IF cmd = "insert"
    THEN Return([i \in 1..Len(entries) |-> <<"playlist", "insert", entries[i]>>])
    ELSE ReplaceOrAddCommands(entries, cmd)

\* PlaylistCommands with the first entry not taken off the list after its play
PlaylistCommandsWithoutPop(entries, cmd) ==
    IF cmd = "insert"
    THEN Return([i \in 1..Len(entries) |-> <<"playlist", "insert", Reversed(entries)[i]>>])
    ELSE IF cmd \in {"play", "load"} /\ Len(entries) > 0
         THEN Return(<<<<"playlist", "play", Head(entries)>>>>
                     \o [i \in 1..Len(entries) |-> <<"playlist", "add", entries[i]>>])
         ELSE ReplaceOrAddCommands(entries, cmd)

\* the commands async_load_playlist issues for the urls of its entries, in
\* the order it issues them
PlaylistCommands(entries, cmd) ==
    IF cmd = "insert"
    THEN Return([i \in 1..Len(entries) |-> <<"playlist", "insert", Reversed(entries)[i]>>])
    ELSE ReplaceOrAddCommands(entries, cmd)

\* the loop over the commands from position i on: each is sent, the server
\* applies the ones it processes, a falsy result clears `success`, and an
\* exception leaves the loop and the call
RECURSIVE IssueFrom(_, _, _, _)
IssueFrom(cmds, xs, i, acc) ==
    IF i > Len(cmds)
    THEN [acc EXCEPT !.out = Return(IF acc.success THEN PyTrue ELSE PyFalse)]
    ELSE LET q == async_query(xs[i])
             next == [srv |-> IF Processed(xs[i])
                              THEN ServerApply(acc.srv, cmds[i]) ELSE acc.srv,
                      sent |-> Append(acc.sent, Sent(cmds[i])),
                      results |-> Append(acc.results, q.out),
                      success |-> acc.success
                                  /\ q.out.kind = "return" /\ Truthy(q.out.val),
                      out |-> q.out,
                      log |-> acc.log \o q.log]
         IN  IF q.out.kind = "raise" THEN next ELSE IssueFrom(cmds, xs, i + 1, next)

\* Player.async_load_playlist against server state s0, xs[i] being the
\* exchange of the i-th command sent
async_load_playlist(entries, cmd, xs, s0) ==
    LET cmds == PlaylistCommands(entries, cmd)
        acc0 == [srv |-> s0, sent |-> <<>>, results |-> <<>>, success |-> TRUE,
                 out |-> Return(PyTrue), log |-> <<>>]
    IN  IF cmds.kind = "raise"
        THEN [acc0 EXCEPT !.out = cmds]
        ELSE IssueFrom(cmds.val, xs, 1, acc0)

(* ---------------------------------------------------------------------- *)
(* Server: enumeration and lookup of players                               *)
(* ---------------------------------------------------------------------- *)

\* the debug record Player.__init__ writes
Created == Log("debug", "Creating SqueezeBox object")

\* Player(self, player["playerid"], player["name"]) for each entry from i on
RECURSIVE PlayersFrom(_, _, _)
PlayersFrom(loop, i, acc) ==
    LET made == [k \in 1..Len(acc) |-> Created] IN
    IF i > Len(loop) THEN [out |-> Return(PyList(acc)), log |-> made]
    ELSE LET id == GetItem(loop[i], "playerid")
             nm == GetItem(loop[i], "name")
         IN  IF id.kind = "raise" THEN [out |-> id, log |-> made]
             ELSE IF nm.kind = "raise" THEN [out |-> nm, log |-> made]
             ELSE PlayersFrom(loop, i + 1, Append(acc, Player(id.val, nm.val)))

\* Server.async_get_players when the roster query's exchange is x
async_get_players(x) ==
    LET q == async_query(x) IN
    IF q.out.kind = "raise" THEN q
    ELSE IF q.out.val = PyFalse THEN [out |-> Return(PyNone), log |-> q.log]
    ELSE IF q.out.val.t # "dict" THEN [out |-> Raise("AttributeError"), log |-> q.log]
    ELSE IF "players_loop" \notin DOMAIN q.out.val.d
         THEN [out |-> Return(EmptyList), log |-> q.log]
    ELSE IF q.out.val.d["players_loop"].t # "list"
         THEN [out |-> Raise("TypeError"), log |-> q.log]
    ELSE LET made == PlayersFrom(q.out.val.d["players_loop"].l, 1, <<>>) IN
         [out |-> made.out, log |-> q.log \o made.log]

\* the name branch: it awaits self.get_players(), a method Server does not
\* have, so the attribute lookup raises before any request is made
NameLookup(name) == [out |-> Raise("AttributeError"), log |-> <<>>, sent |-> <<>>]

\* the player_id branch: one status query for that id, no second lookup
IdLookup(player_id, x) ==
    LET q == async_query(x)
        sent == <<[player |-> player_id, command |-> <<"status">>]>>
        miss == [out |-> Return(PyNone),
                 log |-> q.log \o <<Log("debug", "Unable to find player with id")>>,
                 sent |-> sent]
    IN  IF q.out.kind = "raise" THEN [out |-> q.out, log |-> q.log, sent |-> sent]
        ELSE IF Truthy(q.out.val)
             THEN LET nm == GetItem(q.out.val, "player_name") IN
                  IF nm.kind = "raise" THEN [out |-> nm, log |-> q.log, sent |-> sent]
                  ELSE IF Truthy(nm.val)
                       THEN [out |-> Return(Player(player_id, nm.val)),
                             log |-> q.log \o <<Created>>, sent |-> sent]
                       ELSE miss
             ELSE miss

\* variant that returns None for a call without id and name but logs nothing
async_get_player_silent(player_id, name, x) ==
    IF Truthy(player_id) THEN IdLookup(player_id, x)
    ELSE IF Truthy(name) THEN NameLookup(name)
    ELSE [out |-> Return(PyNone), log |-> <<>>, sent |-> <<>>]

\* Server.async_get_player(player_id, name); x is the exchange of the status
\* query, used only when one is made
async_get_player(player_id, name, x) ==
    IF Truthy(player_id) THEN IdLookup(player_id, x)
    ELSE IF Truthy(name) THEN NameLookup(name)
    ELSE [out |-> Return(PyNone),
          log |-> <<Log("error", "get_player called without name or player_id")>>,
          sent |-> <<>>]

(* ---------------------------------------------------------------------- *)
(* Inputs of the operations                                                *)
(* ---------------------------------------------------------------------- *)

\* a list of n entries, each a mapping with a "url"; the model keeps the urls
Entries(n) == SubSeq(Urls, 1, n)

PlaylistCmds == {"insert", "play", "load", "add"}

\* the exchanges of a call that sends up to n commands: one per command sent,
\* none after the command whose answer makes async_query raise
ExchangeRuns(n) ==
    UNION {{xs \in [1..k -> CommandExchanges] :
              /\ \A i \in 1..(k - 1) : async_query(xs[i]).out.kind = "return"
              /\ k = n \/ (k >= 1 /\ async_query(xs[k]).out.kind = "raise")} : k \in 0..n}

PlayerIdArgs ==
    {PyNone, PyStr(""), PyStr("00:01"), PyStr("Kitchen"), PyStr("NO SUCH ID")}

NameArgs == {PyNone, PyStr("kitchen"), PyStr("NO SUCH PLAYER")}

\* the calls of the plain command methods
CommandCalls ==
    {[name |-> "async_set_volume", arg |-> PyStr(v)] : v \in {"50", "+5"}}
    \cup {[name |-> n, arg |-> b] :
            n \in {"async_set_muting", "async_set_power"}, b \in {PyTrue, PyFalse}}
    \cup {[name |-> n, arg |-> PyNone] :
            n \in {"async_toggle_pause", "async_play", "async_pause",
                   "async_clear_playlist", "async_unsync"}}
    \cup {[name |-> "async_index", arg |-> PyStr(i)] : i \in {"2", "+1"}}
    \cup {[name |-> "async_time", arg |-> PyStr("30")]}
    \cup {[name |-> "async_load_url", arg |-> PyStr("u1"), cmd |-> cmd] :
            cmd \in PlaylistCmds}
    \cup {[name |-> "async_sync", arg |-> a] :
            a \in {PyStr("00:02"), Player(PyStr("00:03"), PyStr("KITCHEN")),
                   PyStr(""), PyNone}}

\* playlists the server may hold when the client connects
InitialServers ==
    {[playlist |-> <<>>, cur |-> 0],
     [playlist |-> <<"u5">>, cur |-> 1],
     [playlist |-> <<"u4", "u5">>, cur |-> 1],
     [playlist |-> <<"u4", "u5">>, cur |-> 2]}

\* the shuffle and repeat settings the server holds when the client connects:
\* those StatusPlaying reports
InitialSettings == [shuffle |-> 2, repeat |-> 1]

\* the mode names set through this Player and stored by the server so far
NothingSet == [shuffle |-> "", repeat |-> ""]

\* the status mapping of the device under the server's settings st
ServerStatus(st) ==
    PyDict([StatusPlaying.d EXCEPT !["playlist shuffle"] = PyInt(st.shuffle),
                                   !["playlist repeat"] = PyInt(st.repeat)])

\* what a processed playlist shuffle / playlist repeat command does to the
\* server's settings
SettingsApply(st, command) ==
    IF Len(command) = 3 /\ command[1] = "playlist" /\ command[2] = "shuffle"
    THEN [st EXCEPT !.shuffle = command[3].n]
    ELSE IF Len(command) = 3 /\ command[1] = "playlist" /\ command[2] = "repeat"
         THEN [st EXCEPT !.repeat = command[3].n]
         ELSE st

\* mode names handed to async_set_shuffle and async_set_repeat
ModeArgs == {"none", "song", "album", "playlist", "random"}

DEFAULT_PORT == 9000

\* the Server objects of the model: without and with credentials
Servers ==
    {[host |-> "lms", port |-> DEFAULT_PORT, username |-> PyNone, password |-> PyNone],
     [host |-> "lms", port |-> DEFAULT_PORT, username |-> PyStr("user"),
      password |-> PyStr("secret")]}

\* the largest volume level of a player
MaxVolume == 100

\* snapshots of a playing device at every raw volume, muted (negative) or not
VolumeSnapshots ==
    {[StatusPlaying.d EXCEPT !["mixer volume"] = PyInt(v)] :
        v \in (0 - MaxVolume)..MaxVolume}

\* what a snapshot may hold under sync_slaves: nothing, an empty value, one
\* id, or a list of one id
SlaveValues == {PyNone, PyStr(""), PyStr("00:02"), PyList(<<PyStr("00:02")>>)}

\* what a snapshot may hold under sync_master: nothing, another device, or
\* the device itself
MasterValues == {PyNone, PyStr("00:03"), PyStr(PlayerId)}

\* snapshots of a device in and out of a sync group; None stands for a key
\* the snapshot does not have
SyncSnapshots ==
    {  (IF sl = PyNone THEN <<>> ELSE ("sync_slaves" :> sl))
    @@ (IF ma = PyNone THEN <<>> ELSE ("sync_master" :> ma))
    @@ StatusPlaying.d : sl \in SlaveValues, ma \in MasterValues}

(* ---------------------------------------------------------------------- *)
(* The state machine                                                       *)
(* ---------------------------------------------------------------------- *)

\* a Player right after construction: empty snapshot, nothing called yet
Init ==
    /\ status = <<>>
    /\ ret = Return(PyNone)
    /\ op = [name |-> "init"]
    /\ log = <<>>
    /\ srv \in InitialServers
    /\ loads = 0
    /\ settings = InitialSettings
    /\ wanted = NothingSet
    /\ lms \in Servers
    /\ calls = 0

\* server.async_query(...) with an arbitrary command
Query ==
    \E x \in Exchanges :
        /\ ret' = async_query(x).out
        /\ log' = async_query(x).log
        /\ op' = [name |-> "async_query", x |-> x]
        /\ UNCHANGED <<status, srv, loads, settings, wanted, lms>>

\* player.async_update()
Update ==
    \E x \in StatusExchanges \cup {Answer(ServerStatus(settings))} :
        LET r == async_update(status, x) IN
        /\ status' = r.status
        /\ ret' = r.out
        /\ log' = r.log
        /\ op' = [name |-> "async_update", x |-> x, before |-> status]
        /\ UNCHANGED <<srv, loads, settings, wanted, lms>>

\* a property read that refreshes the snapshot from the server before it
\* answers
ReadPropertyRefreshing ==
    \E p \in AllPropertyNames :
        /\ status' = ServerStatus(settings).d
        /\ ret' = PlayerProperty(p, PyStr(PlayerId), PyStr(PlayerName),
                                 ServerStatus(settings).d, lms)
        /\ log' = <<>>
        /\ op' = [name |-> "property", p |-> p]
        /\ UNCHANGED <<srv, loads, settings, wanted, lms>>

\* reading one typed property of the player
ReadProperty ==
    \E p \in AllPropertyNames :
        /\ ret' = PlayerProperty(p, PyStr(PlayerId), PyStr(PlayerName), status, lms)
        /\ log' = <<>>
        /\ op' = [name |-> "property", p |-> p]
        /\ UNCHANGED <<status, srv, loads, settings, wanted, lms>>

\* player.async_load_playlist(entries, cmd)
LoadPlaylist ==
    \E n \in 0..MaxEntries, cmd \in PlaylistCmds :
        /\ loads < MaxLoads
        /\ n + (IF cmd \in {"play", "load"} THEN 0 ELSE Len(srv.playlist)) <= MaxQueue
        /\ \E xs \in ExchangeRuns(IF PlaylistCommands(Entries(n), cmd).kind = "raise"
                                  THEN 0
                                  ELSE Len(PlaylistCommands(Entries(n), cmd).val)) :
             LET r == async_load_playlist(Entries(n), cmd, xs, srv) IN
             /\ srv' = r.srv
             /\ ret' = r.out
             /\ log' = r.log
             /\ op' = [name |-> "async_load_playlist", entries |-> Entries(n),
                       cmd |-> cmd, xs |-> xs, before |-> srv,
                       sent |-> r.sent, results |-> r.results]
             /\ loads' = loads + 1
             /\ UNCHANGED <<status, settings, wanted, lms>>

\* server.async_get_players()
GetPlayers ==
    \E x \in Exchanges :
        /\ ret' = async_get_players(x).out
        /\ log' = async_get_players(x).log
        /\ op' = [name |-> "async_get_players", x |-> x]
        /\ UNCHANGED <<status, srv, loads, settings, wanted, lms>>

\* server.async_get_player(player_id, name)
GetPlayer ==
    \E player_id \in PlayerIdArgs, name \in NameArgs :
        \E x \in IF Truthy(player_id) THEN Exchanges ELSE {Timeout} :
            LET r == async_get_player(player_id, name, x) IN
            /\ ret' = r.out
            /\ log' = r.log
            /\ op' = [name |-> "async_get_player", player_id |-> player_id,
                      name_arg |-> name, xs |-> IF r.sent = <<>> THEN <<>> ELSE <<x>>,
                      sent |-> r.sent]
            /\ UNCHANGED <<status, srv, loads, settings, wanted, lms>>

\* player.async_set_shuffle(name)
SetShuffle ==
    \E m \in ModeArgs, x \in CommandExchanges :
        LET r == async_set_shuffle(m, x)
            stored == r.sent # <<>> /\ Processed(x)
        IN  /\ ret' = r.out
            /\ log' = r.log
            /\ op' = [name |-> "async_set_shuffle", mode |-> m,
                      xs |-> IF r.sent = <<>> THEN <<>> ELSE <<x>>, sent |-> r.sent]
            /\ settings' = IF stored THEN SettingsApply(settings, r.sent[1].command)
                           ELSE settings
            /\ wanted' = IF stored THEN [wanted EXCEPT !.shuffle = m] ELSE wanted
            /\ UNCHANGED <<status, srv, loads, lms>>

\* player.async_set_repeat(name)
SetRepeat ==
    \E m \in ModeArgs, x \in CommandExchanges :
        LET r == async_set_repeat(m, x)
            stored == r.sent # <<>> /\ Processed(x)
        IN  /\ ret' = r.out
            /\ log' = r.log
            /\ op' = [name |-> "async_set_repeat", mode |-> m,
                      xs |-> IF r.sent = <<>> THEN <<>> ELSE <<x>>, sent |-> r.sent]
            /\ settings' = IF stored THEN SettingsApply(settings, r.sent[1].command)
                           ELSE settings
            /\ wanted' = IF stored THEN [wanted EXCEPT !.repeat = m] ELSE wanted
            /\ UNCHANGED <<status, srv, loads, lms>>

\* one of the plain command methods of the player
Command ==
    \E c \in CommandCalls, x \in CommandExchanges :
        LET r == PlayerCommand(c, x)
            after == IF r.sent # <<>> /\ Processed(x)
                     THEN ServerApply(srv, r.sent[1].command)
                     ELSE srv
        IN  /\ Len(after.playlist) <= MaxQueue
            /\ ret' = r.out
            /\ log' = r.log
            /\ op' = [name |-> c.name, call |-> c,
                      xs |-> IF r.sent = <<>> THEN <<>> ELSE <<x>>, sent |-> r.sent]
            /\ srv' = after
            /\ UNCHANGED <<status, loads, settings, wanted, lms>>

\* queries, lookups, refreshes and property reads, in any order
Next ==
    \/ Query /\ UNCHANGED calls
    \/ Update /\ UNCHANGED calls
    \/ ReadProperty /\ UNCHANGED calls
    \/ GetPlayers /\ UNCHANGED calls
    \/ GetPlayer /\ UNCHANGED calls

Spec == Init /\ [][Next]_vars

\* playlist loads against the server's playlist
SpecPlaylist == Init /\ [][LoadPlaylist /\ UNCHANGED calls]_vars

\* a Player that holds no snapshot or one of the snapshots of a device
InitFrame ==
    /\ status \in {<<>>, StatusPlaying.d, StatusRemote.d}
    /\ ret = Return(PyNone)
    /\ op = [name |-> "init"]
    /\ log = <<>>
    /\ srv = [playlist |-> <<"u4", "u5">>, cur |-> 1]
    /\ loads = 0
    /\ settings = InitialSettings
    /\ wanted = NothingSet
    /\ lms \in Servers
    /\ calls = 0

\* one more call of a behaviour that counts its calls
Counted == calls < MaxCalls /\ calls' = calls + 1

\* every operation of the Player, in any order
NextFrame ==
    \/ Counted /\ Update
    \/ Counted /\ ReadProperty
    \/ Counted /\ Command
    \/ Counted /\ SetShuffle
    \/ Counted /\ SetRepeat
    \/ Counted /\ LoadPlaylist

SpecFrame == InitFrame /\ [][NextFrame]_vars

\* a fresh Player of one server
InitModes ==
    /\ Init
    /\ srv = [playlist |-> <<>>, cur |-> 0]
    /\ lms.username = PyNone

\* mode changes and refreshes, in any order
NextModes ==
    \/ SetShuffle /\ UNCHANGED calls
    \/ SetRepeat /\ UNCHANGED calls
    \/ Update /\ UNCHANGED calls

SpecModes == InitModes /\ [][NextModes]_vars

\* a Player constructed with a snapshot, as async_get_players' caller may do
InitProperties ==
    /\ status \in VolumeSnapshots \cup SyncSnapshots
    /\ ret = Return(PyNone)
    /\ op = [name |-> "init"]
    /\ log = <<>>
    /\ srv = [playlist |-> <<>>, cur |-> 0]
    /\ loads = 0
    /\ settings = InitialSettings
    /\ wanted = NothingSet
    /\ lms \in Servers
    /\ calls = 0

\* property reads of a Player that holds a snapshot
SpecProperties == InitProperties /\ [][ReadProperty /\ UNCHANGED calls]_vars

(* ---------------------------------------------------------------------- *)
(* Server.async_query: failure, empty success and data                     *)
(* ---------------------------------------------------------------------- *)

\* the exchange ended in a timeout, a client error or a status other than 200
Failed(x) == x.st \in {"timeout", "clienterror"} \/ (x.st = "http" /\ x.code # 200)

\* the exchange is a 200 whose body is a mapping that carries `result`
HasResult(x) ==
    /\ x.st = "http" /\ x.code = 200
    /\ x.body.t = "dict" /\ "result" \in DOMAIN x.body.d

\* C1: when the single exchange of async_query ends in a timeout, a client
\* error or a non-200 status, the call returns False: no data value, no
\* exception.
C1_FailedExchangeReturnsFalse ==
    (op.name = "async_query" /\ Failed(op.x)) => ret = Return(PyFalse)

\* a non-200 response whose body even carries a result has been answered False
C1_Witness ==
    /\ op.name = "async_query"
    /\ op.x = NotFoundResponse
    /\ ret = Return(PyFalse)

\* C2: async_query keeps data, empty success and failure apart: a non-empty
\* result comes back unchanged, an empty mapping or list comes back as True,
\* a failed exchange comes back as False; no failure is truthy and no
\* success is False.
C2_ThreeOutcomes ==
    op.name = "async_query" =>
        /\ Failed(op.x) => (ret = Return(PyFalse) /\ ~Truthy(ret.val))
        /\ HasResult(op.x) =>
             LET r == op.x.body.d["result"] IN
             /\ ret.kind = "return"
             /\ ret.val # PyFalse
             /\ Truthy(ret.val)
             /\ Truthy(r) => ret.val = r
             /\ r \in {EmptyDict, EmptyList} => ret.val = PyTrue

\* an empty list result has come back as the truthy empty-success value
C2_Witness ==
    /\ op.name = "async_query"
    /\ op.x = Answer(EmptyList)
    /\ ret = Return(PyTrue)

\* C3: a 200 response whose body cannot be read as expected (no `result`)
\* does not raise; the parse failure is logged and the caller receives None.
C3_UnreadableBodyGivesNone ==
    (/\ op.name = "async_query"
     /\ op.x.st = "http" /\ op.x.code = 200
     /\ ~HasResult(op.x))
    => /\ ret = Return(PyNone)
       /\ \E i \in 1..Len(log) : log[i].level = "error"

(* ---------------------------------------------------------------------- *)
(* Player.async_update and the typed properties                            *)
(* ---------------------------------------------------------------------- *)

\* C4: whenever the status query returns the failure value, async_update
\* returns False and the snapshot is exactly what it was before the call.
C4_FailedRefreshKeepsSnapshot ==
    (op.name = "async_update" /\ async_query(op.x).out = Return(PyFalse))
    => (ret = Return(PyFalse) /\ status = op.before)

\* a refresh has failed on a Player that held a non-empty snapshot
C4_Witness ==
    /\ op.name = "async_update"
    /\ op.x = Timeout
    /\ op.before = StatusPlaying.d
    /\ status = StatusPlaying.d
    /\ ret = Return(PyFalse)

\* the snapshot a non-failure result of the status query stands for
ResponseMapping(v) == IF v.t = "dict" THEN v.d ELSE <<>>

\* C5: for every non-failure result of the status query, the empty-success
\* result included, async_update returns True and the snapshot then equals
\* the response, with no key of the previous snapshot left over.
C5_SuccessfulRefreshReplaces ==
    (/\ op.name = "async_update"
     /\ async_query(op.x).out.kind = "return"
     /\ async_query(op.x).out.val # PyFalse)
    => /\ ret = Return(PyTrue)
       /\ status = ResponseMapping(async_query(op.x).out.val)

\* the typed properties a never-refreshed Player is read for
UnknownProperties ==
    {"power", "mode", "volume", "muting", "shuffle", "repeat", "current_track",
     "title", "artist", "album", "url", "duration", "time", "playlist"}

\* C6: on a Player with an empty snapshot every typed property reads as
\* None and none raises.
C6_EmptySnapshotReadsUnknown ==
    (op.name = "property" /\ op.p \in UnknownProperties /\ status = <<>>)
    => ret = Return(PyNone)

(* ---------------------------------------------------------------------- *)
(* Player.async_load_playlist                                              *)
(* ---------------------------------------------------------------------- *)

\* the last call was async_load_playlist with a non-empty list of entries
LoadedEntries == op.name = "async_load_playlist" /\ Len(op.entries) >= 1

\* every entry's sub-command was sent and came back truthy
AllSucceeded ==
    /\ Len(op.results) = Len(op.entries)
    /\ \A i \in 1..Len(op.results) :
          op.results[i].kind = "return" /\ Truthy(op.results[i].val)

C9_AllAttemptedResultIsConjunction ==
    LoadedEntries =>
        /\ Len(op.sent) = Len(op.entries)
        /\ ret \in {Return(PyTrue), Return(PyFalse)}
        /\ ret = Return(PyTrue) <=> AllSucceeded

(* ---------------------------------------------------------------------- *)
(* Server.async_get_player                                                 *)
(* ---------------------------------------------------------------------- *)

\* the roster positions whose name equals nm, case ignored
NameMatches(nm) == {i \in 1..Len(Roster) : Lower(Roster[i].name) = Lower(nm)}

\* the Player of the first roster entry with that name
FirstNamed(nm) ==
    LET i == CHOOSE j \in NameMatches(nm) : \A k \in NameMatches(nm) : j <= k
    IN  Player(PyStr(Roster[i].playerid), PyStr(Roster[i].name))

\* the status query of the id lookup confirmed a device
IdFound(x) ==
    LET q == async_query(x).out IN
    /\ q.kind = "return"
    /\ q.val.t = "dict"
    /\ "player_name" \in DOMAIN q.val.d
    /\ Truthy(q.val.d["player_name"])

\* C10: a device name passed in the id position whose id lookup is answered
\* by the server and finds no device is looked up by name, and the Player of
\* the first device with that name, case ignored, is returned.
C10_NameInIdPositionFallsOver ==
    (/\ op.name = "async_get_player"
     /\ Truthy(op.player_id)
     /\ op.name_arg = PyNone
     /\ NameMatches(op.player_id.s) # {}
     /\ Processed(op.xs[1])
     /\ ~IdFound(op.xs[1]))
    => ret = Return(FirstNamed(op.player_id.s))

\* the status query of the id lookup came back without raising and without
\* confirming a device: the failure value, the empty success, or a mapping
\* that has no player_name
NotFoundOutcome(x) ==
    LET q == async_query(x).out IN
    /\ q.kind = "return"
    /\ \/ q.val \in {PyFalse, PyTrue}
       \/ (q.val.t = "dict" /\ "player_name" \notin DOMAIN q.val.d)

\* C11: an id lookup whose status query ends in the failure value, in the
\* empty success or in a mapping without player_name returns None and raises
\* nothing.
C11_UnmatchedIdReturnsNone ==
    (/\ op.name = "async_get_player"
     /\ Truthy(op.player_id)
     /\ NotFoundOutcome(op.xs[1]))
    => ret = Return(PyNone)

\* C12: a lookup called with neither an id nor a name returns None, logs an
\* error, raises nothing and sends no request.
C12_NoArgumentsReturnsNone ==
    (/\ op.name = "async_get_player"
     /\ ~Truthy(op.player_id)
     /\ ~Truthy(op.name_arg))
    => /\ ret = Return(PyNone)
       /\ \E i \in 1..Len(log) : log[i].level = "error"
       /\ op.sent = <<>>
       /\ op.xs = <<>>

\* the lookup was called with an empty id and no name
C12_Witness ==
    /\ op.name = "async_get_player"
    /\ op.player_id = PyStr("")
    /\ op.name_arg = PyNone
    /\ ret = Return(PyNone)
    /\ log = <<Log("error", "get_player called without name or player_id")>>

(* ---------------------------------------------------------------------- *)
(* Player: volume and muting                                               *)
(* ---------------------------------------------------------------------- *)

\* the raw integer volume of the snapshot
RawVolume == status["mixer volume"].n

\* C13: for a raw integer `mixer volume` v in -100..100, volume is |v|, within
\* 0..100, and muting is true exactly when v carries a minus sign.
C13_VolumeAndMutingFromRawField ==
    (/\ op.name = "property"
     /\ "mixer volume" \in DOMAIN status
     /\ status["mixer volume"].t = "int")
    => /\ op.p = "volume" =>
            /\ ret.kind = "return" /\ ret.val.t = "int"
            /\ ret.val.n \in 0..MaxVolume
            /\ ret.val.n \in {RawVolume, 0 - RawVolume}
       /\ op.p = "muting" =>
            ret = Return(IF RawVolume < 0 THEN PyTrue ELSE PyFalse)

\* raw -37 has been read as volume 37
C13_Witness ==
    /\ op.name = "property" /\ op.p = "volume"
    /\ "mixer volume" \in DOMAIN status
    /\ status["mixer volume"] = PyInt(-37)
    /\ ret = Return(PyInt(37))

(* ---------------------------------------------------------------------- *)
(* Player: shuffle and repeat                                              *)
(* ---------------------------------------------------------------------- *)

\* the last call was a refresh that succeeded on the server's own status
RefreshedFromServer ==
    /\ op.name = "async_update"
    /\ op.x = Answer(ServerStatus(settings))
    /\ ret = Return(PyTrue)

\* C14: after a shuffle or repeat name of the table has been set and stored by
\* the server, a successful refresh makes the shuffle / repeat property equal
\* to the name that was set.
C14_ModeRoundTrip ==
    RefreshedFromServer =>
        /\ wanted.shuffle # "" => shuffle(status) = Return(PyStr(wanted.shuffle))
        /\ wanted.repeat # "" => repeat(status) = Return(PyStr(wanted.repeat))

\* shuffle none and repeat playlist were set on a server that held album and
\* song, and the refresh shows them
C14_Witness ==
    /\ RefreshedFromServer
    /\ wanted = [shuffle |-> "none", repeat |-> "playlist"]
    /\ shuffle(status) = Return(PyStr("none"))
    /\ repeat(status) = Return(PyStr("playlist"))

(* ---------------------------------------------------------------------- *)
(* Player: sync group                                                      *)
(* ---------------------------------------------------------------------- *)

\* the ids a sync_slaves value stands for: those of a list, or the one id
SlaveIds(v) == IF v.t = "list" THEN v.l ELSE <<v>>

\* sync_group has been read from a snapshot that reports one slave and a
\* master
ReadSyncGroup ==
    /\ op.name = "property" /\ op.p = "sync_group"
    /\ "sync_slaves" \in DOMAIN status /\ "sync_master" \in DOMAIN status
    /\ Truthy(status["sync_slaves"]) /\ Truthy(status["sync_master"])
    /\ Len(SlaveIds(status["sync_slaves"])) = 1

ContainsPath(u, path) == u.t = "url" /\ u.path = path

\* C16: image_url always yields a URL, never None and never an exception, and
\* for a Player whose snapshot is empty the URL contains
\* /music/unknown/cover.jpg.
C16_ImageUrlOfEmptySnapshot ==
    (op.name = "property" /\ op.p = "image_url") =>
        /\ ret.kind = "return"
        /\ ret.val # PyNone
        /\ status = <<>> => ContainsPath(ret.val, "/music/unknown/cover.jpg")

\* the part of C16 the code does keep: image_url is a URL in every state
C16_ImageUrlAlwaysComputable ==
    (op.name = "property" /\ op.p = "image_url") =>
        ret.kind = "return" /\ ret.val.t = "url"

(* ---------------------------------------------------------------------- *)
(* Player: the snapshot changes only in async_update                       *)
(* ---------------------------------------------------------------------- *)

\* C17: a step that is not an async_update, whether a command that succeeds,
\* fails or raises or a property read, leaves the status snapshot as it was.
C17_OnlyRefreshChangesSnapshot ==
    [][op'.name # "async_update" => status' = status]_vars

\* a command was lost on the way and the Player still holds its snapshot
C17_Witness ==
    /\ op.name = "async_set_volume"
    /\ ret = Return(PyFalse)
    /\ status = StatusPlaying.d


====
